---- MODULE Spec2Model ----
(***************************************************************************)
(* The decoder of rbin (src/src/reader.rs, src/src/hashes.rs,              *)
(* src/src/lib.rs) as a state machine.  One decode of one byte buffer is   *)
(* a run of the machine: the call stack of BinReader's recursive functions *)
(* is the sequence `stack`, the readers alive at a moment (the top reader  *)
(* of read_bin and every sub reader a caller still holds) are the sequence *)
(* `readers`.  A second decode of the same buffer under other resolver     *)
(* tables advances in lockstep, so that the two can be compared.           *)
(*                                                                         *)
(* Numbers wider than TLC's integers are kept as base-256 numerals, most   *)
(* significant digit first: u32::from_le_bytes of 4 bytes is the 4-digit   *)
(* numeral of the same value.  usize is taken to be 64 bits wide.          *)
(***************************************************************************)
EXTENDS Integers, Sequences, FiniteSets, TLC

VARIABLES
    data,      \* the input buffer: a sequence of bytes (data: &[u8])
    src,       \* how the buffer was built (unknown to the decoder)
    hashes,    \* the resolver tables of the decode (hashes: &BinHashes)
    hashes2,   \* the resolver tables of the second decode
    rd,        \* the decode: status, call stack, readers, result
    rd2        \* the second decode of the same buffer, under hashes2

vars == <<data, src, hashes, hashes2, rd, rd2>>

(***************************************************************************)
(* Numerals                                                                *)
(***************************************************************************)
Byte == 0..255

Reverse(s) == [i \in 1..Len(s) |-> s[Len(s) + 1 - i]]

\* uN::from_le_bytes / iN::from_le_bytes / f32::from_le_bytes: the bytes of
\* the buffer, least significant first, as a numeral, most significant first.
from_le_bytes(buffer) == Reverse(buffer)

IsZero(n) == \A i \in 1..Len(n) : n[i] = 0

Extend(n, fill) ==
    [i \in 1..8 |-> IF i <= 8 - Len(n) THEN fill ELSE n[i - (8 - Len(n))]]

\* `as u64` of an unsigned value: zero extension.
as_u64(n) == Extend(n, 0)

\* `as i64` of a signed value: sign extension of the two's complement.
as_i64(n) == Extend(n, IF n[1] >= 128 THEN 255 ELSE 0)

\* A numeral whose value is below 2^31, and its value.
FitsInt(n) ==
    \A i \in 1..Len(n) :
        /\ (i <= Len(n) - 4) => n[i] = 0
        /\ (i = Len(n) - 3) => n[i] < 128

RECURSIVE NumVal(_)
NumVal(n) ==
    IF n = <<>> THEN 0 ELSE NumVal(SubSeq(n, 1, Len(n) - 1)) * 256 + n[Len(n)]

\* i < n for an integer i and a numeral n.
LtNum(i, n) == IF FitsInt(n) THEN i < NumVal(n) ELSE TRUE

(***************************************************************************)
(* BinType                                                                 *)
(***************************************************************************)
BinType_None == 0
BinType_Bool == 1
BinType_I8 == 2
BinType_U8 == 3
BinType_I16 == 4
BinType_U16 == 5
BinType_I32 == 6
BinType_U32 == 7
BinType_I64 == 8
BinType_U64 == 9
BinType_F32 == 10
BinType_Vec2 == 11
BinType_Vec3 == 12
BinType_Vec4 == 13
BinType_Mtx44 == 14
BinType_Rgba == 15
BinType_String == 16
BinType_Hash == 17
BinType_File == 18
BinType_List == 128
BinType_List2 == 129
BinType_Pointer == 130
BinType_Embed == 131
BinType_Link == 132
BinType_Option == 133
BinType_Map == 134
BinType_Flag == 135

\* The discriminants of enum BinType: what BinType::try_from accepts.
BinType == (0..18) \cup (128..135)

(***************************************************************************)
(* Results of a read: Ok(value) with the reader advanced, Err(error), or a *)
(* panic.  A failure records the operation that failed, how many bytes it  *)
(* asked for, how many its reader had left, and the reader's position.     *)
(***************************************************************************)
Ok(r, v) == [ok |-> TRUE, r |-> r, v |-> v]

Err(error, op, need, remain, at) ==
    [ok |-> FALSE,
     fail |-> [kind |-> "Err", error |-> error, op |-> op,
               need |-> need, remain |-> remain, at |-> at]]

Panic(error, op, need, remain, at) ==
    [ok |-> FALSE,
     fail |-> [kind |-> "Panic", error |-> error, op |-> op,
               need |-> need, remain |-> remain, at |-> at]]

\* The `?` operator: go on with an Ok result, return a failure as it is.
Try(res, F(_, _)) == IF res.ok THEN F(res.r, res.v) ELSE res

(***************************************************************************)
(* Byte Cursor.  A reader is a Cursor over the slice data[..buf] at        *)
(* position pos, with its depth; start and end record the region the       *)
(* reader was opened for.                                                  *)
(***************************************************************************)
Remaining(r) == IF r.pos >= r.buf THEN 0 ELSE r.buf - r.pos

\* Cursor::read_exact into a buffer of n bytes.
read_exact(r, n) ==
    IF Remaining(r) >= n
    THEN Ok([r EXCEPT !.pos = @ + n], SubSeq(data, r.pos + 1, r.pos + n))
    ELSE Err("UnexpectedEof", "read_exact", n, Remaining(r), r.pos)

read_le(r, n) == Try(read_exact(r, n), LAMBDA r1, b : Ok(r1, from_le_bytes(b)))

read_i8(r) == read_le(r, 1)
read_u8(r) == read_le(r, 1)
read_i16(r) == read_le(r, 2)
read_u16(r) == read_le(r, 2)
read_i32(r) == read_le(r, 4)
read_u32(r) == read_le(r, 4)
read_i64(r) == read_le(r, 8)
read_u64(r) == read_le(r, 8)
read_f32(r) == read_le(r, 4)

read_vec2(r) ==
    Try(read_f32(r), LAMBDA r1, x :
    Try(read_f32(r1), LAMBDA r2, y : Ok(r2, <<x, y>>)))

read_vec3(r) ==
    Try(read_f32(r), LAMBDA r1, x :
    Try(read_f32(r1), LAMBDA r2, y :
    Try(read_f32(r2), LAMBDA r3, z : Ok(r3, <<x, y, z>>))))

read_vec4(r) ==
    Try(read_f32(r), LAMBDA r1, x :
    Try(read_f32(r1), LAMBDA r2, y :
    Try(read_f32(r2), LAMBDA r3, z :
    Try(read_f32(r3), LAMBDA r4, w : Ok(r4, <<x, y, z, w>>)))))

read_mtx44(r) ==
    Try(read_vec4(r), LAMBDA r1, r0_ :
    Try(read_vec4(r1), LAMBDA r2, r1_ :
    Try(read_vec4(r2), LAMBDA r3, r2_ :
    Try(read_vec4(r3), LAMBDA r4, r3_ : Ok(r4, <<r0_, r1_, r2_, r3_>>)))))

\* The wire order is a, b, g, r; the stored order is r, g, b, a.
read_rgba(r) ==
    Try(read_u8(r), LAMBDA r1, a :
    Try(read_u8(r1), LAMBDA r2, b :
    Try(read_u8(r2), LAMBDA r3, g :
    Try(read_u8(r3), LAMBDA r4, rr : Ok(r4, <<rr, g, b, a>>)))))

\* BinType::try_from(u8): whether the byte is a discriminant of BinType.
try_from_ok(b) == b \in BinType

\* read_type unwraps the conversion: an unknown byte panics.
read_type(r) ==
    Try(read_u8(r), LAMBDA r1, n :
        IF try_from_ok(NumVal(n))
        THEN Ok(r1, NumVal(n))
        ELSE Panic("UnwrapOnErr", "read_type", 1, Remaining(r), r.pos))

\* Whether the bytes s[i..] are well-formed UTF-8 (what read_to_string
\* accepts): the byte ranges of the Unicode standard's table 3-7.
Cont(s, i, lo, hi) == i <= Len(s) /\ s[i] >= lo /\ s[i] <= hi

RECURSIVE Utf8From(_, _)
Utf8From(s, i) ==
    IF i > Len(s) THEN TRUE
    ELSE LET b == s[i] IN
         IF b < 128 THEN Utf8From(s, i + 1)
         ELSE IF b >= 194 /\ b <= 223
              THEN Cont(s, i + 1, 128, 191) /\ Utf8From(s, i + 2)
         ELSE IF b >= 224 /\ b <= 239
              THEN /\ Cont(s, i + 1, IF b = 224 THEN 160 ELSE 128,
                                     IF b = 237 THEN 159 ELSE 191)
                   /\ Cont(s, i + 2, 128, 191)
                   /\ Utf8From(s, i + 3)
         ELSE IF b >= 240 /\ b <= 244
              THEN /\ Cont(s, i + 1, IF b = 240 THEN 144 ELSE 128,
                                     IF b = 244 THEN 143 ELSE 191)
                   /\ Cont(s, i + 2, 128, 191)
                   /\ Cont(s, i + 3, 128, 191)
                   /\ Utf8From(s, i + 4)
         ELSE FALSE

Utf8Valid(s) == Utf8From(s, 1)

\* read_string: a u16 length, a seek over the payload (a Cursor seeks past
\* its end without error), then the slice [cur_pos..end_pos] of the reader's
\* slice, which panics when end_pos is beyond it, read as UTF-8.
read_string(r) ==
    Try(read_u16(r), LAMBDA r1, n :
        LET len == NumVal(n)
            cur_pos == r1.pos
            end_pos == cur_pos + len
        IN  IF end_pos > r1.buf
            THEN Panic("SliceIndexOutOfRange", "read_string", len,
                       Remaining(r1), cur_pos)
            ELSE LET bytes == SubSeq(data, cur_pos + 1, end_pos) IN
                 IF Utf8Valid(bytes)
                 THEN Ok([r1 EXCEPT !.pos = end_pos], bytes)
                 ELSE Err("InvalidData", "read_string", len, Remaining(r1),
                          cur_pos))

(***************************************************************************)
(* Hash Resolver.  A table is a function from the hashes it knows to their *)
(* strings (BinHashList::list); a name is a hash with its string, empty    *)
(* when the table does not know the hash.                                  *)
(***************************************************************************)
from_hash(hash) == [hash |-> hash, unhashed |-> ""]

from_hash_string(hash, string) == [hash |-> hash, unhashed |-> string]

get_hash(name) == name.hash

get_string(name) == name.unhashed

\* BinHashList::get
BinHashList_get(list, hash) ==
    IF hash \in DOMAIN list
    THEN from_hash_string(hash, list[hash])
    ELSE from_hash(hash)

\* BinFNV's and BinXXH's PartialEq: the hashes alone are compared.
name_eq(a, b) == get_hash(a) = get_hash(b)

read_hash_name(r, tabs) ==
    Try(read_u32(r), LAMBDA r1, h : Ok(r1, BinHashList_get(tabs.hashes, h)))

read_entry_name(r, tabs) ==
    Try(read_u32(r), LAMBDA r1, h : Ok(r1, BinHashList_get(tabs.entries, h)))

read_type_name(r, tabs) ==
    Try(read_u32(r), LAMBDA r1, h : Ok(r1, BinHashList_get(tabs.types, h)))

read_field_name(r, tabs) ==
    Try(read_u32(r), LAMBDA r1, h : Ok(r1, BinHashList_get(tabs.fields, h)))

read_path_name(r, tabs) ==
    Try(read_u64(r), LAMBDA r1, h : Ok(r1, BinHashList_get(tabs.paths, h)))

(***************************************************************************)
(* Region Guard                                                            *)
(***************************************************************************)
DepthLimit == 128

\* `depth > 128` of read_sub_reader.
\* A guard that lets one more level through.
depth_exceeded_late(depth) == depth > DepthLimit + 1

depth_exceeded(depth) == depth > DepthLimit

\* A sub reader over all of the parent's slice.
sub_slice_unbounded(parent_buf, end_pos) == parent_buf

\* The length of the slice `&self.cur.get_ref()[..end_pos]` the sub reader's
\* cursor is made over, for a parent over a slice of parent_buf bytes.
sub_slice(parent_buf, end_pos) == end_pos

\* A read_sub_reader that leaves the parent just after the length field.
read_sub_reader_no_skip(r) ==
    LET depth == r.depth + 1 IN
    IF depth_exceeded(depth)
    THEN Err("DepthExceeded", "read_sub_reader", 0, Remaining(r), r.pos)
    ELSE Try(read_u32(r), LAMBDA r1, len :
             LET cur_pos == r1.pos IN
             IF LtNum(r1.buf - cur_pos, len)
             THEN Panic("SliceIndexOutOfRange", "read_sub_reader",
                        IF FitsInt(len) THEN NumVal(len) ELSE -1,
                        Remaining(r1), cur_pos)
             ELSE LET end_pos == cur_pos + NumVal(len) IN
                  Ok(r1,
                     [buf |-> sub_slice(r1.buf, end_pos), pos |-> cur_pos,
                      depth |-> depth, start |-> cur_pos, end |-> end_pos]))

\* read_sub_reader: Ok(parent advanced past the region, the sub reader).
\* The seek never fails; the slice panics when end_pos is beyond the
\* parent's slice.
read_sub_reader(r) ==
    LET depth == r.depth + 1 IN
    IF depth_exceeded(depth)
    THEN Err("DepthExceeded", "read_sub_reader", 0, Remaining(r), r.pos)
    ELSE Try(read_u32(r), LAMBDA r1, len :
             LET cur_pos == r1.pos IN
             IF LtNum(r1.buf - cur_pos, len)
             THEN Panic("SliceIndexOutOfRange", "read_sub_reader",
                        IF FitsInt(len) THEN NumVal(len) ELSE -1,
                        Remaining(r1), cur_pos)
             ELSE LET end_pos == cur_pos + NumVal(len) IN
                  Ok([r1 EXCEPT !.pos = end_pos],
                     [buf |-> sub_slice(r1.buf, end_pos), pos |-> cur_pos,
                      depth |-> depth, start |-> cur_pos, end |-> end_pos]))

(***************************************************************************)
(* BinValue, and HashMap<BinFNV, BinValue> as the set of its entries.      *)
(***************************************************************************)
BinValue_None == [k |-> "None", v |-> <<>>]
BinValue_Bool(b) == [k |-> "Bool", v |-> b]
BinValue_Signed(n) == [k |-> "Signed", v |-> n]
BinValue_Unsigned(n) == [k |-> "Unsigned", v |-> n]
BinValue_Float(x) == [k |-> "Float", v |-> x]
BinValue_Vec2(x) == [k |-> "Vec2", v |-> x]
BinValue_Vec3(x) == [k |-> "Vec3", v |-> x]
BinValue_Vec4(x) == [k |-> "Vec4", v |-> x]
BinValue_Mtx44(x) == [k |-> "Mtx44", v |-> x]
BinValue_Rgba(x) == [k |-> "Rgba", v |-> x]
BinValue_String(s) == [k |-> "String", v |-> s]
BinValue_Hash(h) == [k |-> "Hash", v |-> h]
BinValue_Link(h) == [k |-> "Link", v |-> h]
BinValue_File(h) == [k |-> "File", v |-> h]
BinValue_List(l) == [k |-> "List", v |-> l]
BinValue_Map(l) == [k |-> "Map", v |-> l]
BinValue_Struct(name, fields) == [k |-> "Struct", v |-> <<name, fields>>]

HashMap_new == {}

\* HashMap::insert: keys are compared with BinFNV's eq; the value of a key
\* already present is replaced (the key itself is kept).
\* An insert that keeps the value a key already has.
HashMap_insert_if_absent(map, key, value) ==
    IF \E e \in map : name_eq(e.key, key)
    THEN map
    ELSE map \cup {[key |-> key, value |-> value]}

HashMap_insert(map, key, value) ==
    IF \E e \in map : name_eq(e.key, key)
    THEN {IF name_eq(e.key, key) THEN [key |-> e.key, value |-> value] ELSE e :
          e \in map}
    ELSE map \cup {[key |-> key, value |-> value]}

\* Vec::push
Vec_push(vec, x) == Append(vec, x)

(***************************************************************************)
(* The decode.  A frame of the call stack is one active call of read_bin,  *)
(* read_links, read_entries, read_fields or read_value, at the statement   *)
(* st, with its locals.                                                    *)
(***************************************************************************)
MAGIC == <<80, 79, 82, 80>>     \* 0x504f5250

ZeroU32 == <<0, 0, 0, 0>>

Frame(fn, st) ==
    [fn |-> fn, st |-> st,
     ty |-> 0,                  \* read_value: bin_type
     kty |-> 0,                 \* read_value: key_type
     vty |-> 0,                 \* read_value: value_type
     count |-> ZeroU32,         \* the count read
     i |-> 0,                   \* iterations of the loop done
     j |-> 0,                   \* read_entries: bodies done
     acc |-> <<>>,              \* result
     aux |-> <<>>,              \* version, type_names, the key of a pair
     name |-> from_hash(ZeroU32)]   \* key, type_name

ValueFrame(bin_type) == [Frame("read_value", "start") EXCEPT !.ty = bin_type]

NoFail == [kind |-> "", error |-> "", op |-> "", need |-> 0, remain |-> 0,
           at |-> 0]

NoBin == [version |-> ZeroU32, links |-> <<>>, entries |-> {}]

\* read_bin's first lines: a reader over the whole buffer at depth 0.
Start ==
    [status |-> "run",
     stack |-> <<Frame("read_bin", "magic")>>,
     readers |-> <<[buf |-> Len(data), pos |-> 0, depth |-> 0,
                    start |-> 0, end |-> Len(data)]>>,
     ret |-> BinValue_None,
     fail |-> NoFail,
     bin |-> NoBin]

Top(m) == m.stack[Len(m.stack)]
Cur(m) == m.readers[Len(m.readers)]
SetTop(m, f) == [m EXCEPT !.stack[Len(m.stack)] = f]
SetCur(m, r) == [m EXCEPT !.readers[Len(m.readers)] = r]
Call(m, f) == [m EXCEPT !.stack = Append(@, f)]
\* What a call returned is a BinValue, or the Vec<String> of read_links or
\* the HashMap of read_fields and read_entries, marked "Vec" and "HashMap".
Return(m, v) ==
    [m EXCEPT !.stack = SubSeq(@, 1, Len(@) - 1), !.ret = v]
PushReader(m, r) == [m EXCEPT !.readers = Append(@, r)]
DropReader(m) == [m EXCEPT !.readers = SubSeq(@, 1, Len(@) - 1)]

\* A failure ends the decode: every caller returns it (`?`) or unwinds.
\* The stack and the readers stay as they were when it happened.
Fail(m, fail) == [m EXCEPT !.status = "failed", !.fail = fail]

\* A read by the current reader, then the rest of the statement.
Do(m, res, K(_, _)) ==
    IF res.ok THEN K(SetCur(m, res.r), res.v) ELSE Fail(m, res.fail)

\* read_sub_reader by the current reader: the sub reader becomes current.
Open(m, K(_)) ==
    LET res == read_sub_reader(Cur(m)) IN
    IF res.ok THEN K(PushReader(SetCur(m, res.r), res.v))
    ELSE Fail(m, res.fail)

At(m, fn, st) ==
    /\ m.status = "run"
    /\ Len(m.stack) > 0
    /\ Top(m).fn = fn
    /\ Top(m).st = st

More(f) == LtNum(f.i, f.count)

(***************************************************************************)
(* read_bin                                                                *)
(***************************************************************************)
read_bin_magic(m) ==
    Do(m, read_u32(Cur(m)), LAMBDA m1, magic :
        IF magic = MAGIC
        THEN SetTop(m1, [Top(m1) EXCEPT !.st = "version"])
        ELSE Fail(m1, [kind |-> "Err", error |-> "BadMagic", op |-> "read_bin",
                       need |-> 0, remain |-> Remaining(Cur(m1)),
                       at |-> Cur(m1).pos]))

read_bin_version(m) ==
    Do(m, read_u32(Cur(m)), LAMBDA m1, version :
        SetTop(m1, [Top(m1) EXCEPT !.st = "links", !.aux = version]))

read_bin_links(m) ==
    Call(SetTop(m, [Top(m) EXCEPT !.st = "entries"]),
         Frame("read_links", "count"))

read_bin_entries(m) ==
    Call(SetTop(m, [Top(m) EXCEPT !.st = "ret", !.acc = m.ret.v]),
         Frame("read_entries", "count"))

read_bin_return(m) ==
    [m EXCEPT !.status = "ok",
              !.stack = <<>>,
              !.bin = [version |-> Top(m).aux, links |-> Top(m).acc,
                       entries |-> m.ret.v]]

(***************************************************************************)
(* read_links                                                              *)
(***************************************************************************)
read_links_count(m) ==
    Do(m, read_u32(Cur(m)), LAMBDA m1, count :
        SetTop(m1, [Top(m1) EXCEPT !.st = "loop", !.count = count]))

read_links_item(m) ==
    Do(m, read_string(Cur(m)), LAMBDA m1, value :
        SetTop(m1, [Top(m1) EXCEPT !.acc = Vec_push(@, value), !.i = @ + 1]))

read_links_return(m) == Return(m, [k |-> "Vec", v |-> Top(m).acc])

(***************************************************************************)
(* read_entries                                                            *)
(***************************************************************************)
read_entries_count(m) ==
    Do(m, read_u32(Cur(m)), LAMBDA m1, count :
        SetTop(m1, [Top(m1) EXCEPT !.st = "names", !.count = count,
                                   !.acc = HashMap_new]))

read_entries_type_name(m, tabs) ==
    Do(m, read_type_name(Cur(m), tabs), LAMBDA m1, type_name :
        SetTop(m1, [Top(m1) EXCEPT !.aux = Vec_push(@, type_name),
                                   !.i = @ + 1]))

\* One turn of `for type_name in type_names`, up to the call of read_fields.
read_entries_open(m, tabs) ==
    Open(m, LAMBDA m1 :
        Do(m1, read_entry_name(Cur(m1), tabs), LAMBDA m2, key :
            Call(SetTop(m2, [Top(m2) EXCEPT !.st = "insert", !.name = key]),
                 Frame("read_fields", "count"))))

\* ... and the rest of the turn; the sub reader io is dropped.
read_entries_insert(m) ==
    LET f == Top(m)
        value == BinValue_Struct(f.aux[f.j + 1], m.ret.v)
    IN  DropReader(SetTop(m, [f EXCEPT !.st = "bodies",
                                       !.acc = HashMap_insert(@, f.name, value),
                                       !.j = @ + 1]))

read_entries_return(m) == Return(m, [k |-> "HashMap", v |-> Top(m).acc])

\* The first loop of read_entries is over, the second is at a turn's start.
InBodies(m) ==
    /\ m.status = "run"
    /\ Len(m.stack) > 0
    /\ Top(m).fn = "read_entries"
    /\ IF Top(m).st = "names" THEN ~More(Top(m)) ELSE Top(m).st = "bodies"

(***************************************************************************)
(* read_fields                                                             *)
(***************************************************************************)
read_fields_count(m) ==
    Do(m, read_u16(Cur(m)), LAMBDA m1, count :
        SetTop(m1, [Top(m1) EXCEPT !.st = "loop", !.count = count,
                                   !.acc = HashMap_new]))

\* One turn of the loop, up to the call of read_value.
read_fields_field(m, tabs) ==
    Do(m, read_field_name(Cur(m), tabs), LAMBDA m1, key :
        Do(m1, read_type(Cur(m1)), LAMBDA m2, value_type :
            Call(SetTop(m2, [Top(m2) EXCEPT !.st = "insert", !.name = key]),
                 ValueFrame(value_type))))

read_fields_insert(m) ==
    LET f == Top(m) IN
    SetTop(m, [f EXCEPT !.st = "loop",
                        !.acc = HashMap_insert(@, f.name, m.ret),
                        !.i = @ + 1])

read_fields_return(m) == Return(m, [k |-> "HashMap", v |-> Top(m).acc])

(***************************************************************************)
(* read_value                                                              *)
(***************************************************************************)
ScalarTypes == (0..18) \cup {BinType_Link, BinType_Flag}

ListTypes == {BinType_List, BinType_List2}

StructTypes == {BinType_Pointer, BinType_Embed}

\* The arms of read_value's match that call no read_value and open no
\* sub reader.
read_scalar(r, bin_type, tabs) ==
    CASE bin_type = BinType_None -> Ok(r, BinValue_None)
      [] bin_type \in {BinType_Bool, BinType_Flag} ->
            Try(read_u8(r), LAMBDA r1, n : Ok(r1, BinValue_Bool(~IsZero(n))))
      [] bin_type = BinType_I8 ->
            Try(read_i8(r), LAMBDA r1, n : Ok(r1, BinValue_Signed(as_i64(n))))
      [] bin_type = BinType_U8 ->
            Try(read_u8(r), LAMBDA r1, n : Ok(r1, BinValue_Unsigned(as_u64(n))))
      [] bin_type = BinType_I16 ->
            Try(read_i16(r), LAMBDA r1, n : Ok(r1, BinValue_Signed(as_i64(n))))
      [] bin_type = BinType_U16 ->
            Try(read_u16(r), LAMBDA r1, n : Ok(r1, BinValue_Unsigned(as_u64(n))))
      [] bin_type = BinType_I32 ->
            Try(read_i32(r), LAMBDA r1, n : Ok(r1, BinValue_Signed(as_i64(n))))
      [] bin_type = BinType_U32 ->
            Try(read_u32(r), LAMBDA r1, n : Ok(r1, BinValue_Unsigned(as_u64(n))))
      [] bin_type = BinType_I64 ->
            Try(read_i64(r), LAMBDA r1, n : Ok(r1, BinValue_Signed(as_i64(n))))
      [] bin_type = BinType_U64 ->
            Try(read_u64(r), LAMBDA r1, n : Ok(r1, BinValue_Unsigned(as_u64(n))))
      [] bin_type = BinType_F32 ->
            Try(read_f32(r), LAMBDA r1, x : Ok(r1, BinValue_Float(x)))
      [] bin_type = BinType_Vec2 ->
            Try(read_vec2(r), LAMBDA r1, x : Ok(r1, BinValue_Vec2(x)))
      [] bin_type = BinType_Vec3 ->
            Try(read_vec3(r), LAMBDA r1, x : Ok(r1, BinValue_Vec3(x)))
      [] bin_type = BinType_Vec4 ->
            Try(read_vec4(r), LAMBDA r1, x : Ok(r1, BinValue_Vec4(x)))
      [] bin_type = BinType_Mtx44 ->
            Try(read_mtx44(r), LAMBDA r1, x : Ok(r1, BinValue_Mtx44(x)))
      [] bin_type = BinType_Rgba ->
            Try(read_rgba(r), LAMBDA r1, x : Ok(r1, BinValue_Rgba(x)))
      [] bin_type = BinType_String ->
            Try(read_string(r), LAMBDA r1, x : Ok(r1, BinValue_String(x)))
      [] bin_type = BinType_Hash ->
            Try(read_hash_name(r, tabs), LAMBDA r1, x : Ok(r1, BinValue_Hash(x)))
      [] bin_type = BinType_Link ->
            Try(read_entry_name(r, tabs), LAMBDA r1, x : Ok(r1, BinValue_Link(x)))
      [] bin_type = BinType_File ->
            Try(read_path_name(r, tabs), LAMBDA r1, x : Ok(r1, BinValue_File(x)))

read_value_scalar(m, tabs) ==
    Do(m, read_scalar(Cur(m), Top(m).ty, tabs), LAMBDA m1, value :
        Return(m1, value))

\* BinType::Option: the inner value is read by a nested call of read_value
\* on the same reader.
read_value_option(m) ==
    Do(m, read_type(Cur(m)), LAMBDA m1, value_type :
        Do(m1, read_u8(Cur(m1)), LAMBDA m2, count :
            IF IsZero(count)
            THEN Return(m2, BinValue_None)
            ELSE Call(SetTop(m2, [Top(m2) EXCEPT !.st = "option"]),
                      ValueFrame(value_type))))

read_value_option_return(m) == Return(m, m.ret)

\* BinType::List | BinType::List2, up to the loop.
read_value_list_open(m) ==
    Do(m, read_type(Cur(m)), LAMBDA m1, value_type :
        Open(m1, LAMBDA m2 :
            Do(m2, read_u32(Cur(m2)), LAMBDA m3, count :
                SetTop(m3, [Top(m3) EXCEPT !.st = "list", !.vty = value_type,
                                           !.count = count]))))

read_value_list_elem(m) ==
    Call(SetTop(m, [Top(m) EXCEPT !.st = "list_push"]), ValueFrame(Top(m).vty))

read_value_list_push(m) ==
    SetTop(m, [Top(m) EXCEPT !.st = "list", !.acc = Vec_push(@, m.ret),
                             !.i = @ + 1])

read_value_list_return(m) ==
    Return(DropReader(m), BinValue_List(Top(m).acc))

\* BinType::Map, up to the loop.
read_value_map_open(m) ==
    Do(m, read_type(Cur(m)), LAMBDA m1, key_type :
        Do(m1, read_type(Cur(m1)), LAMBDA m2, value_type :
            Open(m2, LAMBDA m3 :
                Do(m3, read_u32(Cur(m3)), LAMBDA m4, count :
                    SetTop(m4, [Top(m4) EXCEPT !.st = "map",
                                               !.kty = key_type,
                                               !.vty = value_type,
                                               !.count = count])))))

read_value_map_key(m) ==
    Call(SetTop(m, [Top(m) EXCEPT !.st = "map_value"]), ValueFrame(Top(m).kty))

read_value_map_value(m) ==
    Call(SetTop(m, [Top(m) EXCEPT !.st = "map_push", !.aux = m.ret]),
         ValueFrame(Top(m).vty))

\* A turn's end that replaces the pair of an equal key.
read_value_map_replace(m) ==
    LET f == Top(m)
        same(i) == f.acc[i][1] = f.aux
    IN  SetTop(m, [f EXCEPT !.st = "map",
                            !.acc = IF \E i \in 1..Len(f.acc) : same(i)
                                    THEN [i \in 1..Len(f.acc) |->
                                            IF same(i) THEN <<f.aux, m.ret>>
                                            ELSE f.acc[i]]
                                    ELSE Vec_push(f.acc, <<f.aux, m.ret>>),
                            !.aux = <<>>,
                            !.i = @ + 1])

read_value_map_push(m) ==
    SetTop(m, [Top(m) EXCEPT !.st = "map",
                             !.acc = Vec_push(@, <<Top(m).aux, m.ret>>),
                             !.aux = <<>>,
                             !.i = @ + 1])

read_value_map_return(m) ==
    Return(DropReader(m), BinValue_Map(Top(m).acc))

\* A null test by the resolved string.
is_null_by_string(type_name) == get_string(type_name) = "null"

\* `type_name.get_hash() == 0`
is_null(type_name) == IsZero(get_hash(type_name))

\* A struct arm that opens the sub reader before the null test.
read_value_struct_eager(m, tabs) ==
    Do(m, read_type_name(Cur(m), tabs), LAMBDA m1, type_name :
        Open(m1, LAMBDA m2 :
            IF is_null(type_name)
            THEN Return(DropReader(m2), BinValue_None)
            ELSE Call(SetTop(m2, [Top(m2) EXCEPT !.st = "struct",
                                                 !.name = type_name]),
                      Frame("read_fields", "count"))))

\* BinType::Pointer | BinType::Embed, up to the call of read_fields.
read_value_struct(m, tabs) ==
    Do(m, read_type_name(Cur(m), tabs), LAMBDA m1, type_name :
        IF is_null(type_name)
        THEN Return(m1, BinValue_None)
        ELSE Open(m1, LAMBDA m2 :
                 Call(SetTop(m2, [Top(m2) EXCEPT !.st = "struct",
                                                 !.name = type_name]),
                      Frame("read_fields", "count"))))

read_value_struct_return(m) ==
    Return(DropReader(m), BinValue_Struct(Top(m).name, m.ret.v))

(***************************************************************************)
(* Where each step is taken                                                *)
(***************************************************************************)
at_read_bin_magic(m) == At(m, "read_bin", "magic")

at_read_bin_version(m) == At(m, "read_bin", "version")

at_read_bin_links(m) == At(m, "read_bin", "links")

at_read_bin_entries(m) == At(m, "read_bin", "entries")

at_read_bin_return(m) == At(m, "read_bin", "ret")

at_read_links_count(m) == At(m, "read_links", "count")

at_read_links_item(m) == At(m, "read_links", "loop") /\ More(Top(m))

at_read_links_return(m) == At(m, "read_links", "loop") /\ ~More(Top(m))

at_read_entries_count(m) == At(m, "read_entries", "count")

at_read_entries_type_name(m) == At(m, "read_entries", "names") /\ More(Top(m))

at_read_entries_open(m) == InBodies(m) /\ Top(m).j < Len(Top(m).aux)

at_read_entries_insert(m) == At(m, "read_entries", "insert")

at_read_entries_return(m) == InBodies(m) /\ Top(m).j >= Len(Top(m).aux)

at_read_fields_count(m) == At(m, "read_fields", "count")

at_read_fields_field(m) == At(m, "read_fields", "loop") /\ More(Top(m))

at_read_fields_insert(m) == At(m, "read_fields", "insert")

at_read_fields_return(m) == At(m, "read_fields", "loop") /\ ~More(Top(m))

at_read_value_scalar(m) == At(m, "read_value", "start") /\ Top(m).ty \in ScalarTypes

at_read_value_option(m) == At(m, "read_value", "start") /\ Top(m).ty = BinType_Option

at_read_value_option_return(m) == At(m, "read_value", "option")

at_read_value_list_open(m) == At(m, "read_value", "start") /\ Top(m).ty \in ListTypes

at_read_value_list_elem(m) == At(m, "read_value", "list") /\ More(Top(m))

at_read_value_list_push(m) == At(m, "read_value", "list_push")

at_read_value_list_return(m) == At(m, "read_value", "list") /\ ~More(Top(m))

at_read_value_map_open(m) == At(m, "read_value", "start") /\ Top(m).ty = BinType_Map

at_read_value_map_key(m) == At(m, "read_value", "map") /\ More(Top(m))

at_read_value_map_value(m) == At(m, "read_value", "map_value")

at_read_value_map_push(m) == At(m, "read_value", "map_push")

at_read_value_map_return(m) == At(m, "read_value", "map") /\ ~More(Top(m))

at_read_value_struct(m) == At(m, "read_value", "start") /\ Top(m).ty \in StructTypes

at_read_value_struct_return(m) == At(m, "read_value", "struct")

\* The step a decode takes next; a decode that has ended stays as it is.
Step(m, tabs) ==
    CASE at_read_bin_magic(m) -> read_bin_magic(m)
      [] at_read_bin_version(m) -> read_bin_version(m)
      [] at_read_bin_links(m) -> read_bin_links(m)
      [] at_read_bin_entries(m) -> read_bin_entries(m)
      [] at_read_bin_return(m) -> read_bin_return(m)
      [] at_read_links_count(m) -> read_links_count(m)
      [] at_read_links_item(m) -> read_links_item(m)
      [] at_read_links_return(m) -> read_links_return(m)
      [] at_read_entries_count(m) -> read_entries_count(m)
      [] at_read_entries_type_name(m) -> read_entries_type_name(m, tabs)
      [] at_read_entries_open(m) -> read_entries_open(m, tabs)
      [] at_read_entries_insert(m) -> read_entries_insert(m)
      [] at_read_entries_return(m) -> read_entries_return(m)
      [] at_read_fields_count(m) -> read_fields_count(m)
      [] at_read_fields_field(m) -> read_fields_field(m, tabs)
      [] at_read_fields_insert(m) -> read_fields_insert(m)
      [] at_read_fields_return(m) -> read_fields_return(m)
      [] at_read_value_scalar(m) -> read_value_scalar(m, tabs)
      [] at_read_value_option(m) -> read_value_option(m)
      [] at_read_value_option_return(m) -> read_value_option_return(m)
      [] at_read_value_list_open(m) -> read_value_list_open(m)
      [] at_read_value_list_elem(m) -> read_value_list_elem(m)
      [] at_read_value_list_push(m) -> read_value_list_push(m)
      [] at_read_value_list_return(m) -> read_value_list_return(m)
      [] at_read_value_map_open(m) -> read_value_map_open(m)
      [] at_read_value_map_key(m) -> read_value_map_key(m)
      [] at_read_value_map_value(m) -> read_value_map_value(m)
      [] at_read_value_map_push(m) -> read_value_map_push(m)
      [] at_read_value_map_return(m) -> read_value_map_return(m)
      [] at_read_value_struct(m) -> read_value_struct(m, tabs)
      [] at_read_value_struct_return(m) -> read_value_struct_return(m)
      [] OTHER -> m

(***************************************************************************)
(* Actions: the decode takes a step, and the second decode takes its own.  *)
(***************************************************************************)
Advance(m1) ==
    /\ rd' = m1
    /\ rd2' = Step(rd2, hashes2)
    /\ UNCHANGED <<data, src, hashes, hashes2>>

ReadBinMagic == at_read_bin_magic(rd) /\ Advance(read_bin_magic(rd))

ReadBinVersion == at_read_bin_version(rd) /\ Advance(read_bin_version(rd))

ReadBinLinks == at_read_bin_links(rd) /\ Advance(read_bin_links(rd))

ReadBinEntries == at_read_bin_entries(rd) /\ Advance(read_bin_entries(rd))

ReadBinReturn == at_read_bin_return(rd) /\ Advance(read_bin_return(rd))

ReadLinksCount == at_read_links_count(rd) /\ Advance(read_links_count(rd))

ReadLinksItem == at_read_links_item(rd) /\ Advance(read_links_item(rd))

ReadLinksReturn == at_read_links_return(rd) /\ Advance(read_links_return(rd))

ReadEntriesCount == at_read_entries_count(rd) /\ Advance(read_entries_count(rd))

ReadEntriesTypeName == at_read_entries_type_name(rd) /\ Advance(read_entries_type_name(rd, hashes))

ReadEntriesOpen == at_read_entries_open(rd) /\ Advance(read_entries_open(rd, hashes))

ReadEntriesInsert == at_read_entries_insert(rd) /\ Advance(read_entries_insert(rd))

ReadEntriesReturn == at_read_entries_return(rd) /\ Advance(read_entries_return(rd))

ReadFieldsCount == at_read_fields_count(rd) /\ Advance(read_fields_count(rd))

ReadFieldsField == at_read_fields_field(rd) /\ Advance(read_fields_field(rd, hashes))

ReadFieldsInsert == at_read_fields_insert(rd) /\ Advance(read_fields_insert(rd))

ReadFieldsReturn == at_read_fields_return(rd) /\ Advance(read_fields_return(rd))

ReadValueScalar == at_read_value_scalar(rd) /\ Advance(read_value_scalar(rd, hashes))

ReadValueOption == at_read_value_option(rd) /\ Advance(read_value_option(rd))

ReadValueOptionReturn == at_read_value_option_return(rd) /\ Advance(read_value_option_return(rd))

ReadValueListOpen == at_read_value_list_open(rd) /\ Advance(read_value_list_open(rd))

ReadValueListElem == at_read_value_list_elem(rd) /\ Advance(read_value_list_elem(rd))

ReadValueListPush == at_read_value_list_push(rd) /\ Advance(read_value_list_push(rd))

ReadValueListReturn == at_read_value_list_return(rd) /\ Advance(read_value_list_return(rd))

ReadValueMapOpen == at_read_value_map_open(rd) /\ Advance(read_value_map_open(rd))

ReadValueMapKey == at_read_value_map_key(rd) /\ Advance(read_value_map_key(rd))

ReadValueMapValue == at_read_value_map_value(rd) /\ Advance(read_value_map_value(rd))

ReadValueMapPush == at_read_value_map_push(rd) /\ Advance(read_value_map_push(rd))

ReadValueMapReturn == at_read_value_map_return(rd) /\ Advance(read_value_map_return(rd))

ReadValueStruct == at_read_value_struct(rd) /\ Advance(read_value_struct(rd, hashes))

ReadValueStructReturn == at_read_value_struct_return(rd) /\ Advance(read_value_struct_return(rd))

Next ==
    \/ ReadBinMagic
    \/ ReadBinVersion
    \/ ReadBinLinks
    \/ ReadBinEntries
    \/ ReadBinReturn
    \/ ReadLinksCount
    \/ ReadLinksItem
    \/ ReadLinksReturn
    \/ ReadEntriesCount
    \/ ReadEntriesTypeName
    \/ ReadEntriesOpen
    \/ ReadEntriesInsert
    \/ ReadEntriesReturn
    \/ ReadFieldsCount
    \/ ReadFieldsField
    \/ ReadFieldsInsert
    \/ ReadFieldsReturn
    \/ ReadValueScalar
    \/ ReadValueOption
    \/ ReadValueOptionReturn
    \/ ReadValueListOpen
    \/ ReadValueListElem
    \/ ReadValueListPush
    \/ ReadValueListReturn
    \/ ReadValueMapOpen
    \/ ReadValueMapKey
    \/ ReadValueMapValue
    \/ ReadValueMapPush
    \/ ReadValueMapReturn
    \/ ReadValueStruct
    \/ ReadValueStructReturn

(***************************************************************************)
(* Input buffers.  The wire format of a document, written out for a        *)
(* bounded family of documents; every buffer is such a document, or one    *)
(* cut short, or one with a single byte replaced.  A document is named by  *)
(* its family and a parameter p, a sequence of numbers.                    *)
(***************************************************************************)
MaxEntries == 3     \* entries of a document of the family "entries"
MaxPairs == 3       \* pairs of the map of the family "map"
MaxFields == 3      \* fields of the struct of the family "fields"
SmallNest == 2      \* shallow nestings, 1..SmallNest containers
DeepSlack == 1      \* deep nestings, up to DepthLimit + DeepSlack containers

Pow256(i) == CASE i = 0 -> 1 [] i = 1 -> 256 [] i = 2 -> 65536 [] i = 3 -> 16777216

\* The w <= 4 little-endian bytes of n.
LE(n, w) == [i \in 1..w |-> (n \div Pow256(i - 1)) % 256]

RECURSIVE Flat(_)
Flat(ss) == IF ss = <<>> THEN <<>> ELSE ss[1] \o Flat(Tail(ss))

MagicBytes == <<80, 82, 79, 80>>    \* "PROP"

Str(bytes) == LE(Len(bytes), 2) \o bytes
Region(body) == LE(Len(body), 4) \o body
Field(name, tag, payload) == LE(name, 4) \o <<tag>> \o payload
Fields(fs) == LE(Len(fs), 2) \o Flat(fs)
Body(name, fs) == Region(LE(name, 4) \o Fields(fs))
Doc(version, links, types, bodies) ==
    MagicBytes \o LE(version, 4)
    \o LE(Len(links), 4) \o Flat([i \in 1..Len(links) |-> Str(links[i])])
    \o LE(Len(types), 4) \o Flat([i \in 1..Len(types) |-> LE(types[i], 4)])
    \o Flat(bodies)

ListVal(ety, elems) == <<ety>> \o Region(LE(Len(elems), 4) \o Flat(elems))
MapVal(kty, vty, pairs) ==
    <<kty, vty>>
    \o Region(LE(Len(pairs), 4)
              \o Flat([i \in 1..Len(pairs) |-> pairs[i][1] \o pairs[i][2]]))
OptSome(ty, payload) == <<ty, 1>> \o payload
OptNone(ty) == <<ty, 0>>
StructVal(type, fs) == LE(type, 4) \o Region(Fields(fs))
NullStruct == LE(0, 4)

Pat(w) == [i \in 1..w |-> (151 + 7 * i) % 256]

ScalarPayload(tag) ==
    CASE tag = BinType_None -> <<>>
      [] tag \in {BinType_Bool, BinType_I8, BinType_U8, BinType_Flag} -> Pat(1)
      [] tag \in {BinType_I16, BinType_U16} -> Pat(2)
      [] tag \in {BinType_I32, BinType_U32, BinType_F32, BinType_Rgba,
                  BinType_Hash, BinType_Link} -> Pat(4)
      [] tag \in {BinType_I64, BinType_U64, BinType_Vec2, BinType_File} -> Pat(8)
      [] tag = BinType_Vec3 -> Pat(12)
      [] tag = BinType_Vec4 -> Pat(16)
      [] tag = BinType_Mtx44 -> Pat(64)
      [] tag = BinType_String -> Str(<<104, 105>>)

\* The kinds of self-nesting value; "null" is lists around a null struct.
NestKinds == <<"list", "map", "struct", "option", "null">>

NestTag(kind) ==
    CASE kind = "list" -> BinType_List
      [] kind = "map" -> BinType_Map
      [] kind = "struct" -> BinType_Pointer
      [] kind = "option" -> BinType_Option
      [] kind = "null" -> BinType_List

\* What the innermost container holds: a u8, or a pointer of type name 0.
NestLeafTag(kind) == IF kind = "null" THEN BinType_Pointer ELSE BinType_U8
NestLeaf(kind) == IF kind = "null" THEN NullStruct ELSE <<7>>

\* The bytes of one container of a nesting, before its content.
NestBlockLen(kind) ==
    CASE kind = "list" -> 9 [] kind = "map" -> 11 [] kind = "struct" -> 15
      [] kind = "option" -> 2 [] kind = "null" -> 9

\* The j-th container, outermost first, of n nested ones: its inner type
\* tag, the length of its region (what follows the length field), a count
\* of one.
NestBlock(kind, n, j) ==
    LET tag == IF j = n THEN NestLeafTag(kind) ELSE NestTag(kind)
        rest == (n - j) * NestBlockLen(kind) + Len(NestLeaf(kind))
    IN  CASE kind \in {"list", "null"} ->
                <<tag>> \o LE(4 + rest, 4) \o LE(1, 4)
          [] kind = "map" ->
                <<BinType_U8, tag>> \o LE(4 + 1 + rest, 4) \o LE(1, 4) \o <<1>>
          [] kind = "struct" ->
                LE(17, 4) \o LE(2 + 4 + 1 + rest, 4) \o LE(1, 2) \o LE(1, 4)
                \o <<tag>>
          [] kind = "option" -> <<tag, 1>>

RECURSIVE NestBlocks(_, _, _, _)
NestBlocks(kind, n, lo, hi) ==
    IF lo = hi THEN NestBlock(kind, n, lo)
    ELSE LET mid == (lo + hi) \div 2 IN
         NestBlocks(kind, n, lo, mid) \o NestBlocks(kind, n, mid + 1, hi)

\* A value of the kind, n >= 1 of them nested.
NestPayload(kind, n) == NestBlocks(kind, n, 1, n) \o NestLeaf(kind)

U8Field(name, value) == Field(name, BinType_U8, <<value>>)

MixedDocs == 1..4

Mixed(p) ==
    CASE p = 1 ->
            Doc(1, <<(<<97>>)>>, <<17, 18>>,
                <<Body(1, <<Field(1, BinType_List,
                                  ListVal(BinType_String,
                                          <<Str(<<120>>), Str(<<121, 122>>)>>)),
                            U8Field(2, 9)>>),
                  Body(2, <<U8Field(1, 5)>>)>>)
      [] p = 2 ->
            Doc(1, <<>>, <<17>>,
                <<Body(1, <<Field(1, BinType_Option, OptSome(BinType_U8, <<7>>)),
                            Field(2, BinType_Option, OptNone(BinType_U8)),
                            Field(3, BinType_Pointer, NullStruct),
                            Field(4, BinType_Embed,
                                  StructVal(18, <<U8Field(1, 3)>>)),
                            U8Field(2, 4)>>)>>)
      [] p = 3 ->
            Doc(1, <<>>, <<17>>,
                <<Body(1, <<Field(1, BinType_Map,
                                  MapVal(BinType_String, BinType_List2,
                                         <<(<<Str(<<107>>),
                                              ListVal(BinType_U8,
                                                      <<(<<1>>), <<2>>>>)>>),
                                           <<Str(<<107>>),
                                             ListVal(BinType_U8, <<>>)>>>>)),
                            Field(2, BinType_Link, LE(1, 4)),
                            Field(3, BinType_Hash, LE(1, 4))>>)>>)
      [] p = 4 ->
            Doc(1, <<(<<195, 169>>), <<>>>>, <<17>>,
                <<Body(1, <<Field(1, BinType_Option,
                                  OptSome(BinType_List,
                                          ListVal(BinType_Pointer,
                                                  <<StructVal(18, <<>>),
                                                    NullStruct>>))),
                            U8Field(2, 6)>>)>>)

\* The document a family and its parameter stand for.
Base(fam, p) ==
    CASE fam = "entries" ->
            Doc(1, <<>>, [i \in 1..Len(p) |-> 16 + i],
                [i \in 1..Len(p) |-> Body(p[i], <<U8Field(1, i)>>)])
      [] fam = "map" ->
            Doc(1, <<>>, <<17>>,
                <<Body(1, <<Field(1, BinType_Map,
                                  MapVal(BinType_U8, BinType_U8,
                                         [i \in 1..Len(p) |->
                                             <<(<<p[i]>>), <<i>>>>]))>>)>>)
      [] fam = "fields" ->
            Doc(1, <<>>, <<17>>,
                <<Body(1, [i \in 1..Len(p) |-> U8Field(p[i], i)])>>)
      [] fam = "scalar" ->
            Doc(1, <<>>, <<17>>,
                <<Body(1, <<Field(1, p[1], ScalarPayload(p[1])),
                            U8Field(2, 9)>>)>>)
      [] fam = "mixed" -> Mixed(p[1])
      [] fam = "nest" ->
            Doc(1, <<>>, <<17>>,
                <<Body(1, <<Field(1, NestTag(NestKinds[p[1]]),
                                  NestPayload(NestKinds[p[1]], p[2]))>>)>>)

Names == {1, 2}

SeqsUpTo(S, n) == UNION {[1..k -> S] : k \in 0..n}

NestCounts == (1..SmallNest) \cup ((DepthLimit - 1)..(DepthLimit + DeepSlack))

Docs ==
    {<<"entries", p>> : p \in SeqsUpTo(Names, MaxEntries)}
    \cup {<<"map", p>> : p \in SeqsUpTo(Names, MaxPairs)}
    \cup {<<"fields", p>> : p \in SeqsUpTo(Names, MaxFields)}
    \cup {<<"scalar", <<p>> >> : p \in ScalarTypes}
    \cup {<<"mixed", <<p>> >> : p \in MixedDocs}
    \cup {<<"nest", <<k, n>> >> : k \in DOMAIN NestKinds, n \in NestCounts}

ShallowDocs ==
    {<<"mixed", <<p>> >> : p \in MixedDocs}
    \cup {<<"nest", <<k, n>> >> : k \in DOMAIN NestKinds, n \in 1..SmallNest}

\* The documents that are also cut short, at every length.
CutDocs ==
    ShallowDocs \cup {<<"scalar", <<p>> >> : p \in ScalarTypes}
    \cup {<<"entries", <<1, 2>> >>}

\* The documents that also have one byte replaced, at every offset.
SubDocs == ShallowDocs \cup {<<"scalar", <<BinType_String>> >>}

FuzzBytes == {0, 2, 255}

Sources ==
    {[fam |-> d[1], p |-> d[2], cut |-> -1, sub |-> <<>>] : d \in Docs}
    \cup UNION {{[fam |-> d[1], p |-> d[2], cut |-> n, sub |-> <<>>] :
                    n \in 0..(Len(Base(d[1], d[2])) - 1)} : d \in CutDocs}
    \cup UNION {{s \in {[fam |-> d[1], p |-> d[2], cut |-> -1,
                         sub |-> <<i, b>>] :
                            i \in 1..Len(Base(d[1], d[2])), b \in FuzzBytes} :
                    Base(d[1], d[2])[s.sub[1]] # s.sub[2]} : d \in SubDocs}

Wire(s) ==
    LET b == Base(s.fam, s.p)
        c == IF s.cut < 0 THEN b ELSE SubSeq(b, 1, s.cut)
    IN  IF s.sub = <<>> THEN c ELSE [c EXCEPT ![s.sub[1]] = s.sub[2]]

Whole(s) == s.cut < 0 /\ s.sub = <<>>

(***************************************************************************)
(* Resolver tables: BinHashes::new(), and two populated ones that know     *)
(* different hashes under different strings.                               *)
(***************************************************************************)
U32(n) == from_le_bytes(LE(n, 4))

BinHashes_new ==
    [entries |-> <<>>, fields |-> <<>>, hashes |-> <<>>, types |-> <<>>,
     paths |-> <<>>]

TablesA ==
    [entries |-> (U32(1) :> "entry1"),
     fields |-> (U32(1) :> "field1" @@ U32(2) :> "field2"),
     hashes |-> (from_le_bytes(Pat(4)) :> "hash"),
     types |-> (ZeroU32 :> "null" @@ U32(17) :> "type17"),
     paths |-> (from_le_bytes(Pat(8)) :> "path")]

TablesB ==
    [entries |-> (U32(1) :> "x" @@ U32(2) :> "y"),
     fields |-> (U32(2) :> "z"),
     hashes |-> <<>>,
     types |-> (U32(18) :> "w"),
     paths |-> <<>>]

Tables == <<BinHashes_new, TablesA, TablesB>>

(***************************************************************************)
(* The specification                                                       *)
(***************************************************************************)
Init ==
    /\ src \in Sources
    /\ data = Wire(src)
    /\ \E t \in 1..Len(Tables) :
          /\ hashes = Tables[t]
          /\ hashes2 = Tables[(t % Len(Tables)) + 1]
    /\ rd = Start
    /\ rd2 = Start

Spec == Init /\ [][Next]_vars

(***************************************************************************)
(* Properties                                                              *)
(***************************************************************************)
Failed(m) == m.status = "failed"

Finished(m) == m.status = "ok"

\* The calls of read_value that are active.
ReadValueActivations(m) ==
    Cardinality({i \in 1..Len(m.stack) : m.stack[i].fn = "read_value"})

IsNest(kind) ==
    /\ src.fam = "nest"
    /\ Whole(src)
    /\ NestKinds[src.p[1]] = kind

\* C1: during a decode no more calls of read_value are active at once than
\* the depth cap allows, whatever tags the input nests.
C1_ActivationsBounded == ReadValueActivations(rd) <= DepthLimit

\* C2: the top reader has depth 0 and every sub reader its parent's depth
\* plus one, never more than 128; the depth error is returned exactly when a
\* sub reader is asked of a reader at depth 128; a document of n containers
\* nested in an entry body (n + 1 regions) decodes when n + 1 <= 128 and
\* fails with the depth error when n + 1 > 128.
C2_DepthBound ==
    /\ \A i \in 1..Len(rd.readers) :
          /\ rd.readers[i].depth = i - 1
          /\ rd.readers[i].depth <= DepthLimit
    /\ (Failed(rd) /\ rd.fail.error = "DepthExceeded") =>
          /\ rd.fail.kind = "Err"
          /\ rd.fail.op = "read_sub_reader"
          /\ Cur(rd).depth = DepthLimit
    /\ \A kind \in {"list", "map", "struct"} :
          IsNest(kind) =>
             /\ Finished(rd) => src.p[2] + 1 <= DepthLimit
             /\ Failed(rd) =>
                   /\ src.p[2] + 1 > DepthLimit
                   /\ rd.fail.error = "DepthExceeded"

\* C2's case: a document of 128 containers in an entry body has failed with
\* the depth error, its innermost reader at depth 128.
C2_Witness ==
    /\ IsNest("list")
    /\ src.p[2] = DepthLimit
    /\ Failed(rd)
    /\ rd.fail.error = "DepthExceeded"
    /\ Len(rd.readers) = DepthLimit + 1

\* The length field a failed read_sub_reader had read.
RegionLenRead(m) == from_le_bytes(SubSeq(data, m.fail.at - 3, m.fail.at))

RegionOverran(m) ==
    /\ Failed(m)
    /\ m.fail.op = "read_sub_reader"
    /\ m.fail.error # "DepthExceeded"
    /\ LtNum(m.fail.remain, RegionLenRead(m))

\* C3: a sub region whose length reaches beyond the bytes its parent has
\* left makes the decode return the error RegionOverrun.
C3_RegionOverrunIsError ==
    RegionOverran(rd) =>
        rd.fail.kind = "Err" /\ rd.fail.error = "RegionOverrun"

ShortRead(m) ==
    /\ Failed(m)
    /\ m.fail.op \in {"read_exact", "read_string"}
    /\ m.fail.need > m.fail.remain

\* C4: a read of more bytes than the reader's region has left, the payload
\* of a text included, makes the decode return the error UnexpectedEof.
C4_ShortReadIsEof ==
    ShortRead(rd) => rd.fail.kind = "Err" /\ rd.fail.error = "UnexpectedEof"

UnknownTagRead(m) ==
    /\ Failed(m)
    /\ m.fail.op = "read_type"
    /\ data[m.fail.at + 1] \notin BinType

\* C5: a type tag that is no defined tag makes the decode return the error
\* UnknownTag.
C5_UnknownTagIsError ==
    UnknownTagRead(rd) =>
        rd.fail.kind = "Err" /\ rd.fail.error = "UnknownTag"

\* C6: a reader's position never leaves the region it was opened for, and
\* a sub reader's region lies within its parent's: no reader consumes a byte
\* at or beyond its region's end.
C6_RegionIsolation ==
    \A i \in 1..Len(rd.readers) :
        LET r == rd.readers[i] IN
        /\ r.start <= r.pos
        /\ r.pos <= r.end
        /\ r.end <= Len(data)
        /\ i > 1 =>
              /\ rd.readers[i - 1].start <= r.start
              /\ r.end <= rd.readers[i - 1].end

\* C6's case: a read by a sub reader has failed for want of bytes in its
\* region, while the buffer holds enough bytes after the region's end.
C6_Witness ==
    /\ ShortRead(rd)
    /\ Len(rd.readers) > 1
    /\ rd.fail.need <= Len(data) - rd.fail.at
    /\ Cur(rd).end < rd.readers[Len(rd.readers) - 1].end

\* The last entry of p that has the name h.
LastIndex(p, h) ==
    CHOOSE i \in 1..Len(p) : p[i] = h /\ \A j \in (i + 1)..Len(p) : p[j] # h

U8Value(n) == BinValue_Unsigned(as_u64(<<n>>))

\* What the document of the family "entries" with the entry names p holds:
\* entry i has the type name 16 + i and the one field 1 = i.
ExpectedEntries(p, tabs) ==
    {[key |-> BinHashList_get(tabs.entries, U32(h)),
      value |-> BinValue_Struct(
                    BinHashList_get(tabs.types, U32(16 + LastIndex(p, h))),
                    {[key |-> BinHashList_get(tabs.fields, U32(1)),
                      value |-> U8Value(LastIndex(p, h))]})] :
        h \in {p[i] : i \in 1..Len(p)}}

IsWhole(fam) == src.fam = fam /\ Whole(src)

\* C7: every type name of the entry table is read before any entry body is
\* opened; body i gets type name i; an entry name maps to the struct of the
\* last body that carries it.
C7_EntriesLastWins ==
    /\ Len(rd.readers) > 1 =>
          LET f == rd.stack[2] IN
          /\ f.fn = "read_entries"
          /\ FitsInt(f.count)
          /\ Len(f.aux) = NumVal(f.count)
          /\ IsWhole("entries") =>
                \A i \in 1..Len(f.aux) : get_hash(f.aux[i]) = U32(16 + i)
    /\ (IsWhole("entries") /\ Finished(rd)) =>
          rd.bin.entries = ExpectedEntries(src.p, hashes)

HasDuplicate(p) == \E i, j \in 1..Len(p) : i < j /\ p[i] = p[j]

\* C7's case: a document with two entries of one name has been decoded.
C7_Witness ==
    /\ IsWhole("entries")
    /\ HasDuplicate(src.p)
    /\ Finished(rd)
    /\ Cardinality(rd.bin.entries) < Len(src.p)

\* The fields of the one entry of a document.
OnlyFields(bin) == (CHOOSE e \in bin.entries : TRUE).value.v[2]

\* C8: a map of c pairs decodes to its c pairs in wire order, equal keys
\* kept; of the fields of a struct that share a name the last is kept.
C8_MapKeepsPairs ==
    /\ (IsWhole("map") /\ Finished(rd)) =>
          OnlyFields(rd.bin) =
             {[key |-> BinHashList_get(hashes.fields, U32(1)),
               value |-> BinValue_Map([i \in 1..Len(src.p) |->
                                          <<U8Value(src.p[i]), U8Value(i)>>])]}
    /\ (IsWhole("fields") /\ Finished(rd)) =>
          OnlyFields(rd.bin) =
             {[key |-> BinHashList_get(hashes.fields, U32(h)),
               value |-> U8Value(LastIndex(src.p, h))] :
                 h \in {src.p[i] : i \in 1..Len(src.p)}}

\* C8's case: a map with two pairs of one key has been decoded.
C8_Witness ==
    /\ IsWhole("map")
    /\ HasDuplicate(src.p)
    /\ Finished(rd)

\* A value without the strings of its names.
RECURSIVE Unlabel(_)
Unlabel(x) ==
    CASE x.k \in {"Hash", "Link", "File"} -> [k |-> x.k, v |-> get_hash(x.v)]
      [] x.k = "List" ->
            [k |-> x.k, v |-> [i \in 1..Len(x.v) |-> Unlabel(x.v[i])]]
      [] x.k = "Map" ->
            [k |-> x.k,
             v |-> [i \in 1..Len(x.v) |->
                       <<Unlabel(x.v[i][1]), Unlabel(x.v[i][2])>>]]
      [] x.k = "Struct" ->
            [k |-> x.k,
             v |-> <<get_hash(x.v[1]),
                     {[key |-> get_hash(e.key), value |-> Unlabel(e.value)] :
                         e \in x.v[2]}>>]
      [] x.k = "HashMap" ->
            [k |-> x.k,
             v |-> {[key |-> get_hash(e.key), value |-> Unlabel(e.value)] :
                       e \in x.v}]
      [] OTHER -> x

\* A decode without the strings of its names: its outcome, its readers (the
\* bytes consumed), where each call is, what was returned last, the document.
Shape(m) ==
    [status |-> m.status,
     fail |-> m.fail,
     readers |-> m.readers,
     calls |-> [i \in 1..Len(m.stack) |->
                  LET f == m.stack[i] IN
                  <<f.fn, f.st, f.ty, f.kty, f.vty, f.count, f.i, f.j,
                    get_hash(f.name)>>],
     ret |-> Unlabel(m.ret),
     bin |-> [version |-> m.bin.version, links |-> m.bin.links,
              entries |-> Unlabel([k |-> "HashMap", v |-> m.bin.entries]).v]]

\* C9: two decodes of one buffer under different resolver tables agree at
\* every step in outcome, in the bytes consumed and in all but the strings.
C9_ResolutionIndependent == Shape(rd) = Shape(rd2)

\* C9's case: both decodes have returned a document, the two documents
\* differ (in strings), and a struct with the type name 0 was read as None.
C9_Witness ==
    /\ Finished(rd)
    /\ Finished(rd2)
    /\ rd.bin # rd2.bin
    /\ src.fam = "mixed"
    /\ src.p = <<2>>

\* C10 without the kind of failure: the stages in order, a partial document
\* never, a wrong magic stops the decode at offset 4.
C10_AllOrNothing ==
    /\ ~Finished(rd) => rd.bin = NoBin
    /\ Finished(rd) =>
          /\ rd.stack = <<>>
          /\ rd.bin.version = from_le_bytes(SubSeq(data, 5, 8))
    /\ Len(rd.stack) > 1 =>
          /\ rd.stack[1].fn = "read_bin"
          /\ rd.stack[2].fn = "read_links" => rd.stack[1].st = "entries"
          /\ rd.stack[2].fn = "read_entries" => rd.stack[1].st = "ret"
    /\ (Len(data) >= 4 /\ SubSeq(data, 1, 4) # MagicBytes) =>
          /\ ~Finished(rd)
          /\ Cur(rd).pos <= 4
          /\ Len(rd.stack) = 1
          /\ Failed(rd) => rd.fail.error = "BadMagic"

\* C10: the stages run in order, a wrong magic is reported before anything
\* else is read, and a failing read ends the decode with an error returned
\* to the caller and no partial document.
C10_FailFast ==
    /\ C10_AllOrNothing
    /\ Failed(rd) => rd.fail.kind = "Err"

\* The length field before the region of the reader r.
RegionLenOf(r) == from_le_bytes(SubSeq(data, r.start - 3, r.start))

\* While a sub reader lives, its parent stands at the region's end, and the
\* region is as long as its length field says.
ParentPastRegion ==
    \A i \in 2..Len(rd.readers) :
        LET c == rd.readers[i] IN
        /\ rd.readers[i - 1].pos = c.end
        /\ FitsInt(RegionLenOf(c))
        /\ c.end = c.start + NumVal(RegionLenOf(c))

\* A step leaves every reader but the current one as it is; a step that
\* opens a region puts the parent at its end; a step that drops a sub reader
\* changes no other reader and is no failure, whatever the sub reader read.
ParentUntouched ==
    LET n == Len(rd.readers)
        k == Len(rd'.readers)
    IN  /\ \A i \in 1..(n - 1) : i < k => rd'.readers[i] = rd.readers[i]
        /\ k > n =>
              /\ k = n + 1
              /\ rd'.readers[k].start >= rd.readers[n].pos + 4
              /\ rd'.readers[n].pos = rd'.readers[k].end
        /\ k < n =>
              /\ rd'.readers = SubSeq(rd.readers, 1, n - 1)
              /\ rd'.status = "run"

\* C11: opening a region of length L with the parent at p after the length
\* field puts the parent at p + L; nothing the child reads moves the parent;
\* a child that reads less than L is no error, and the parent reads on at
\* p + L.
C11_ParentSkipsRegion == []ParentPastRegion /\ [][ParentUntouched]_vars

\* C11's case: a list whose count was made 0 left its elements unread, and
\* the field after the list was decoded.
C11_Witness ==
    /\ src.fam = "mixed"
    /\ src.p = <<1>>
    /\ src.sub # <<>>
    /\ Finished(rd)
    /\ \E e \in rd.bin.entries :
          \E f, g \in e.value.v[2] :
              /\ f.value = BinValue_List(<<>>)
              /\ g.value = U8Value(9)

\* The struct arm on a type name of hash 0 returns None having read the 4
\* bytes of the hash and nothing else; on another hash it opens a region (or
\* fails doing so) and calls read_fields; the fields returned make the Struct.
NullStructStep ==
    /\ (at_read_value_struct(rd) /\ Remaining(Cur(rd)) >= 4) =>
          LET r == Cur(rd)
              n == Len(rd.readers)
              h == from_le_bytes(SubSeq(data, r.pos + 1, r.pos + 4))
          IN  IF IsZero(h)
              THEN /\ rd'.status = "run"
                   /\ rd'.ret = BinValue_None
                   /\ rd'.readers = [rd.readers EXCEPT ![n].pos = r.pos + 4]
                   /\ rd'.stack = SubSeq(rd.stack, 1, Len(rd.stack) - 1)
              ELSE \/ /\ Failed(rd')
                      /\ rd'.fail.op \in {"read_sub_reader", "read_exact"}
                      /\ rd'.fail.at >= r.pos + 4
                   \/ /\ rd'.status = "run"
                      /\ Len(rd'.readers) = n + 1
                      /\ Cur(rd').depth = r.depth + 1
                      /\ Cur(rd').start = r.pos + 8
                      /\ Cur(rd').pos = r.pos + 8
                      /\ Top(rd').fn = "read_fields"
                      /\ get_hash(rd'.stack[Len(rd.stack)].name) = h
    /\ at_read_value_struct_return(rd) =>
          /\ ~IsZero(get_hash(Top(rd).name))
          /\ rd'.ret = BinValue_Struct(Top(rd).name, rd.ret.v)

\* C12: a pointer or embed of type-name hash 0 decodes as None, consuming
\* the 4 hash bytes, reading no length, opening no region and not consulting
\* the depth guard; any other hash opens a region whose fields make
\* Struct(type name, fields).
C12_NullStruct == [][NullStructStep]_vars

\* C12's case: in a reader at depth 128 a pointer of hash 0 was read as None.
C12_Witness ==
    /\ IsNest("null")
    /\ src.p[2] = DepthLimit - 1
    /\ rd.status = "run"
    /\ Cur(rd).depth = DepthLimit
    /\ Cur(rd).pos = Cur(rd).start + 8
    /\ rd.ret = BinValue_None
    /\ at_read_value_list_push(rd)

====
